---- MODULE Spec2Model ----
(***************************************************************************)
(* MediChat Pro (src/main.py, src/app/chat_utils.py,                       *)
(* src/app/vectorstore_utils.py): one Streamlit session.                   *)
(*                                                                         *)
(* The script of main.py runs top to bottom once per user interaction.     *)
(* A run is modelled as a chain of steps (pc), each one a block of the     *)
(* script; what the run calls and renders is recorded, in order, in trace. *)
(* Texts are sequences of one-character strings, so that str.strip and     *)
(* str.join are computed and not assumed.                                  *)
(***************************************************************************)
EXTENDS Integers, Sequences, FiniteSets, TLC

\* ------------------------------------------------------------------ bounds
\* At most MaxAsks questions are submitted between two Clear Chat actions.
MaxAsks == 2
\* At most MaxBuilds indexes are constructed in the session.
MaxBuilds == 2

\* ------------------------------------------------------------------ inputs
\* The PDFs the user can upload.
FileNames == {"f1.pdf", "f2.pdf"}
\* What extract_text_from_pdf can return for a file: nothing, whitespace only,
\* plain text, text with whitespace around it.
Texts == { <<>>, <<" ", "\n">>, <<"a">>, <<" ", "b", "\n">> }
\* What the user can type into the chat input (never empty).
Questions == {"q1", "q2"}
\* What time.strftime("%H:%M") can return.
Times == {"10:00", "10:01"}
\* What the generation API can answer.
Responses == {"r1"}

\* ------------------------------------------------------------- Python bits
Whitespace == {" ", "\n", "\t"}

RECURSIVE LStrip(_)
LStrip(s) ==
    IF s # <<>> /\ Head(s) \in Whitespace THEN LStrip(Tail(s)) ELSE s

RECURSIVE RStrip(_)
RStrip(s) ==
    IF s # <<>> /\ s[Len(s)] \in Whitespace
    THEN RStrip(SubSeq(s, 1, Len(s) - 1))
    ELSE s

\* str.strip()
Strip(s) == RStrip(LStrip(s))

\* sep.join(parts), on sequences of characters
RECURSIVE Join(_, _)
Join(parts, sep) ==
    IF parts = <<>> THEN <<>>
    ELSE IF Len(parts) = 1 THEN parts[1]
    ELSE parts[1] \o sep \o Join(Tail(parts), sep)

\* the concatenation of a sequence of sequences (list.extend in a loop)
RECURSIVE Flatten(_)
Flatten(ss) ==
    IF ss = <<>> THEN <<>> ELSE Head(ss) \o Flatten(Tail(ss))

Min(a, b) == IF a <= b THEN a ELSE b

\* Python's None, for the vector index reference and for a prompt not given.
None == [id |-> 0, docs |-> <<>>]
NoPrompt == "<None>"

\* d[k] = v on a dict
Put(d, k, v) == [x \in (DOMAIN d) \cup {k} |-> IF x = k THEN v ELSE d[x]]

\* ------------------------------------------------------------------- state
VARIABLES
    session_state,   \* st.session_state: a dict with keys messages, vectorstore
    uploaded_files,  \* the file uploader's value: the uploaded files, in order
    builds,          \* how many indexes have been constructed (object identity)
    pc,              \* where the script run is; "new" before the first run
    event,           \* the widget that triggered the run
    prompt,          \* the chat input's value in this run
    timestamp,       \* main.py's timestamp
    fidx,            \* the extraction loop's position in uploaded_files
    all_texts,       \* main.py's all_texts
    system_prompt,   \* main.py's system_prompt
    response,        \* main.py's response
    trace            \* what this run has called and rendered, in order

vars == <<session_state, uploaded_files, builds, pc, event, prompt, timestamp,
          fidx, all_texts, system_prompt, response, trace>>

locals == <<timestamp, fidx, all_texts, system_prompt, response>>

messages == session_state["messages"]
vectorstore == session_state["vectorstore"]

Ev(op, arg) == [op |-> op, arg |-> arg]

\* The orders in which files can sit in the uploader.
FileLists ==
    { fs \in UNION { [1..n -> FileNames] : n \in 0..Cardinality(FileNames) } :
        \A i, j \in DOMAIN fs : i # j => fs[i] # fs[j] }

Init ==
    /\ session_state = [x \in {} |-> <<>>]
    /\ uploaded_files = <<>>
    /\ builds = 0
    /\ pc = "new"
    /\ event = "none"
    /\ prompt = NoPrompt
    /\ timestamp = ""
    /\ fidx = 0
    /\ all_texts = <<>>
    /\ system_prompt = <<>>
    /\ response = ""
    /\ trace = <<>>

\* A script run starts: module-level names are fresh, nothing is rendered yet.
StartRun(ev, q) ==
    /\ pc' = "init"
    /\ event' = ev
    /\ prompt' = q
    /\ timestamp' = ""
    /\ fidx' = 0
    /\ all_texts' = <<>>
    /\ system_prompt' = <<>>
    /\ response' = ""
    /\ trace' = <<>>

\* An uncaught exception ends the run; the session state keeps what was written.
Abort(fn) ==
    /\ pc' = "idle"
    /\ trace' = Append(trace, Ev("exception", fn))

\* ------------------------------------------------------- what the user does
\* The page is opened: the first run of the session.
Load ==
    /\ pc = "new"
    /\ StartRun("none", NoPrompt)
    /\ UNCHANGED <<session_state, uploaded_files, builds>>

\* The user adds or removes files in the uploader.
Upload ==
    /\ pc = "idle"
    /\ \E fs \in FileLists :
        /\ fs # uploaded_files
        /\ uploaded_files' = fs
    /\ StartRun("none", NoPrompt)
    /\ UNCHANGED <<session_state, builds>>

\* The user clicks "Process Documents" (rendered only with files uploaded).
ClickProcess ==
    /\ pc = "idle"
    /\ uploaded_files # <<>>
    /\ builds < MaxBuilds
    /\ StartRun("process", NoPrompt)
    /\ UNCHANGED <<session_state, uploaded_files, builds>>

\* The user clicks "Clear Chat".
ClickClear ==
    /\ pc = "idle"
    /\ StartRun("clear", NoPrompt)
    /\ UNCHANGED <<session_state, uploaded_files, builds>>

UserRecords(log) == SelectSeq(log, LAMBDA m : m.role = "user")

\* The user submits a question in the chat input.
SubmitQuestion ==
    /\ pc = "idle"
    /\ Len(UserRecords(messages)) < MaxAsks
    /\ \E q \in Questions : StartRun("ask", q)
    /\ UNCHANGED <<session_state, uploaded_files, builds>>

\* ------------------------------------------------------------ the script run
\* The key is written on every run.
ResetKey(s, k, v) == Put(s, k, v)

\* main.py 79-83
InitKey(s, k, v) == IF k \in DOMAIN s THEN s ELSE Put(s, k, v)

SessionInit ==
    /\ pc = "init"
    /\ session_state' =
         InitKey(InitKey(session_state, "messages", <<>>), "vectorstore", None)
    /\ pc' = "sidebar"
    /\ UNCHANGED <<uploaded_files, builds, event, prompt, locals, trace>>

\* main.py 88-96: the sidebar up to the extraction loop
Sidebar ==
    /\ pc = "sidebar"
    /\ IF uploaded_files # <<>>
       THEN /\ trace' = Append(trace, Ev("st.success:uploaded", Len(uploaded_files)))
            /\ IF event = "process"
               THEN pc' = "extract" /\ fidx' = 1 /\ all_texts' = <<>>
               ELSE pc' = "clear_button" /\ UNCHANGED <<fidx, all_texts>>
       ELSE /\ pc' = "clear_button"
            /\ UNCHANGED <<trace, fidx, all_texts>>
    /\ UNCHANGED <<session_state, uploaded_files, builds, event, prompt,
                   timestamp, system_prompt, response>>

\* if text: without the strip
KeepNonEmpty(text) == text # <<>>

\* main.py 99: if text.strip()
KeepText(text) == Strip(text) # <<>>

\* main.py 97-102: one iteration of the extraction loop
ExtractFile ==
    /\ pc = "extract"
    /\ \E text \in Texts :
        LET f == uploaded_files[fidx]
            called == Append(trace, Ev("extract_text_from_pdf", [file |-> f, text |-> text]))
        IN  IF KeepText(text)
            THEN /\ all_texts' = Append(all_texts, text)
                 /\ trace' = called
            ELSE /\ all_texts' = all_texts
                 /\ trace' = Append(called, Ev("st.warning:no_text", f))
    /\ fidx' = fidx + 1
    /\ pc' = IF fidx < Len(uploaded_files) THEN "extract" ELSE "build"
    /\ UNCHANGED <<session_state, uploaded_files, builds, event, prompt,
                   timestamp, system_prompt, response>>

\* main.py 98: extract_text_from_pdf raises
ExtractRaises ==
    /\ pc = "extract"
    /\ Abort("extract_text_from_pdf")
    /\ UNCHANGED <<session_state, uploaded_files, builds, event, prompt, locals>>

\* RecursiveCharacterTextSplitter(chunk_size=1000, chunk_overlap=200).split_text
\* on a text shorter than chunk_size, as every text of the model is: the text
\* stripped, as one chunk, and no chunk when nothing is left.
SplitText(text) == IF Strip(text) = <<>> THEN <<>> ELSE <<Strip(text)>>

\* main.py 105-108
Chunks(texts) == Flatten([i \in DOMAIN texts |-> SplitText(texts[i])])

\* vectorstore_utils.py 11-16: FAISS.from_texts builds a new index object,
\* the n-th of the session, over the texts given.
create_faiss_index(texts, n) == [id |-> n, docs |-> texts]

\* A guard that keeps the first index of the session.
StoreIndexOnce(s, index) ==
    IF s["vectorstore"] = None THEN Put(s, "vectorstore", index) ELSE s

\* main.py 109: st.session_state.vectorstore = ...
StoreIndex(s, index) == Put(s, "vectorstore", index)

\* FAISS.add_texts on the stored index in place of FAISS.from_texts.
BuildIndexIncremental ==
    /\ pc = "build"
    /\ all_texts # <<>>
    /\ LET chunks == Chunks(all_texts)
           index == create_faiss_index(vectorstore.docs \o chunks, builds + 1)
       IN  /\ session_state' = StoreIndex(session_state, index)
           /\ trace' = trace \o
                << Ev("create_faiss_index", chunks),
                   Ev("create_faiss_index:return", index),
                   Ev("st.success:processed", 0),
                   Ev("st.balloons", 0) >>
    /\ builds' = builds + 1
    /\ pc' = "clear_button"
    /\ UNCHANGED <<uploaded_files, event, prompt, locals>>

\* New documents also start a new conversation: the log is emptied.
BuildIndexNewChat ==
    /\ pc = "build"
    /\ all_texts # <<>>
    /\ LET chunks == Chunks(all_texts)
           index == create_faiss_index(chunks, builds + 1)
       IN  /\ session_state' = Put(StoreIndex(session_state, index), "messages", <<>>)
           /\ trace' = trace \o
                << Ev("create_faiss_index", chunks),
                   Ev("create_faiss_index:return", index),
                   Ev("st.success:processed", 0),
                   Ev("st.balloons", 0) >>
    /\ builds' = builds + 1
    /\ pc' = "clear_button"
    /\ UNCHANGED <<uploaded_files, event, prompt, locals>>

\* main.py 104-111: texts were extracted, the index is built and stored
BuildIndex ==
    /\ pc = "build"
    /\ all_texts # <<>>
    /\ LET chunks == Chunks(all_texts)
           index == create_faiss_index(chunks, builds + 1)
       IN  /\ session_state' = StoreIndex(session_state, index)
           /\ trace' = trace \o
                << Ev("create_faiss_index", chunks),
                   Ev("create_faiss_index:return", index),
                   Ev("st.success:processed", 0),
                   Ev("st.balloons", 0) >>
    /\ builds' = builds + 1
    /\ pc' = "clear_button"
    /\ UNCHANGED <<uploaded_files, event, prompt, locals>>

\* The old index dropped before the new one is built.
BuildIndexRaisesAfterDrop ==
    /\ pc = "build"
    /\ all_texts # <<>>
    /\ pc' = "idle"
    /\ session_state' = StoreIndex(session_state, None)
    /\ trace' = trace \o
         << Ev("create_faiss_index", Chunks(all_texts)),
            Ev("exception", "create_faiss_index") >>
    /\ UNCHANGED <<uploaded_files, builds, event, prompt, locals>>

\* main.py 109: create_faiss_index raises (the embeddings API is remote)
BuildIndexRaises ==
    /\ pc = "build"
    /\ all_texts # <<>>
    /\ pc' = "idle"
    /\ trace' = trace \o
         << Ev("create_faiss_index", Chunks(all_texts)),
            Ev("exception", "create_faiss_index") >>
    /\ UNCHANGED <<session_state, uploaded_files, builds, event, prompt, locals>>

\* The block without its "if all_texts" guard: the index is built anyway.
NoValidTextUnguarded ==
    /\ pc = "build"
    /\ all_texts = <<>>
    /\ LET chunks == Chunks(all_texts)
           index == create_faiss_index(chunks, builds + 1)
       IN  /\ session_state' = StoreIndex(session_state, index)
           /\ trace' = trace \o
                << Ev("create_faiss_index", chunks),
                   Ev("create_faiss_index:return", index),
                   Ev("st.success:processed", 0),
                   Ev("st.balloons", 0) >>
    /\ builds' = builds + 1
    /\ pc' = "clear_button"
    /\ UNCHANGED <<uploaded_files, event, prompt, locals>>

\* main.py 104, 112-113: nothing was extracted
NoValidText ==
    /\ pc = "build"
    /\ all_texts = <<>>
    /\ trace' = Append(trace, Ev("st.error:no_valid_text", 0))
    /\ pc' = "clear_button"
    /\ UNCHANGED <<session_state, uploaded_files, builds, event, prompt, locals>>

\* Clear Chat dropping the index with the log.
ClearedAll(s) == Put(Put(s, "messages", <<>>), "vectorstore", None)

\* main.py 116
ClearedState(s) == Put(s, "messages", <<>>)

\* The handler without st.rerun(): the run goes on to the history loop.
ClearButtonNoRerun ==
    /\ pc = "clear_button"
    /\ IF event = "clear"
       THEN /\ session_state' = ClearedState(session_state)
            /\ trace' = Append(trace, Ev("st.success:cleared", 0))
       ELSE UNCHANGED <<session_state, trace>>
    /\ pc' = "history"
    /\ UNCHANGED <<uploaded_files, builds, event, prompt, locals>>

\* main.py 115-118: the Clear Chat button; st.rerun() stops the run
ClearButton ==
    /\ pc = "clear_button"
    /\ IF event = "clear"
       THEN /\ session_state' = ClearedState(session_state)
            /\ trace' = trace \o << Ev("st.success:cleared", 0), Ev("st.rerun", 0) >>
            /\ pc' = "rerun"
       ELSE /\ pc' = "history"
            /\ UNCHANGED <<session_state, trace>>
    /\ UNCHANGED <<uploaded_files, builds, event, prompt, locals>>

\* st.rerun(): the script starts over at once, with no widget triggered
Rerun ==
    /\ pc = "rerun"
    /\ StartRun("none", NoPrompt)
    /\ UNCHANGED <<session_state, uploaded_files, builds>>

\* main.py 128-129: what is rendered for a record
Rendered(m) ==
    [ role_class |-> IF m.role = "user" THEN "user" ELSE "assistant",
      content |-> m.content,
      timestamp |-> m.timestamp ]

\* The loop over reversed(messages): newest record first.
HistoryNewestFirst ==
    /\ pc = "history"
    /\ trace' = trace \o
         [i \in DOMAIN messages |->
            Ev("st.markdown:message", Rendered(messages[Len(messages) + 1 - i]))]
    /\ pc' = "chat_input"
    /\ UNCHANGED <<session_state, uploaded_files, builds, event, prompt, locals>>

\* main.py 123-129: the history loop
History ==
    /\ pc = "history"
    /\ trace' = trace \o
         [i \in DOMAIN messages |-> Ev("st.markdown:message", Rendered(messages[i]))]
    /\ pc' = "chat_input"
    /\ UNCHANGED <<session_state, uploaded_files, builds, event, prompt, locals>>

\* list.insert(0, rec) in place of list.append(rec).
PrependMessage(log, rec) == <<rec>> \o log

\* main.py 134, 162: list.append
AppendMessage(log, rec) == Append(log, rec)

\* The branch taken whatever is stored.
HasIndexAlways(vs) == TRUE

\* main.py 137: if st.session_state.vectorstore
HasIndex(vs) == vs # None

\* main.py 132-137, 163-164: a question was submitted
ChatInput ==
    /\ pc = "chat_input"
    /\ event = "ask"
    /\ \E t \in Times :
        LET rec == [role |-> "user", content |-> prompt, timestamp |-> t]
            shown == trace \o << Ev("messages.append", rec),
                                  Ev("st.markdown:message", Rendered(rec)) >>
        IN  /\ timestamp' = t
            /\ session_state' =
                 Put(session_state, "messages", AppendMessage(messages, rec))
            /\ IF HasIndex(vectorstore)
               THEN /\ trace' = shown
                    /\ pc' = "retrieve"
               ELSE /\ trace' = Append(shown, Ev("st.warning:no_index", 0))
                    /\ pc' = "footer"
    /\ UNCHANGED <<uploaded_files, builds, event, prompt, fidx, all_texts,
                   system_prompt, response>>

\* main.py 132: no question in this run
NoChatInput ==
    /\ pc = "chat_input"
    /\ event # "ask"
    /\ pc' = "footer"
    /\ UNCHANGED <<session_state, uploaded_files, builds, event, prompt, locals, trace>>

\* vectorstore_utils.py 18: the default k
DefaultK == 4

\* FAISS.similarity_search(query, k): min(k, size) documents of the index, in
\* an order the embeddings decide.
SimilaritySearch(vs, query, k) ==
    LET n == Min(k, Len(vs.docs))
    IN  { [i \in 1..n |-> vs.docs[p[i]]] :
            p \in { q \in [1..n -> DOMAIN vs.docs] :
                      \A i, j \in 1..n : i # j => q[i] # q[j] } }

\* The search asked for every document of the index.
retrieve_all_docs(vs, query) == SimilaritySearch(vs, query, Len(vs.docs))

\* vectorstore_utils.py 18-19
retrieve_relevant_docs(vs, query) == SimilaritySearch(vs, query, DefaultK)

\* main.py 145-155: the f-string
FormatPrompt(context, q) ==
    << "You are MediChat Pro [...]\n\nMedical Documents:\n" >> \o context \o
    << "\n\nUser Question: ", q, "\n\nAnswer:" >>

\* The prompt built with no retrieval.
RetrieveSkipped ==
    /\ pc = "retrieve"
    /\ system_prompt' = FormatPrompt(<<>>, prompt)
    /\ pc' = "generate"
    /\ UNCHANGED <<session_state, uploaded_files, builds, event, prompt,
                   timestamp, fidx, all_texts, response, trace>>

\* main.py 141-155: retrieval and the prompt
Retrieve ==
    /\ pc = "retrieve"
    /\ \E relevant_docs \in retrieve_relevant_docs(vectorstore, prompt) :
        LET context == Join(relevant_docs, << "\n", "\n" >>)
        IN  /\ system_prompt' = FormatPrompt(context, prompt)
            /\ trace' = trace \o
                 << Ev("retrieve_relevant_docs", [vectorstore |-> vectorstore, query |-> prompt]),
                    Ev("retrieve_relevant_docs:return", relevant_docs) >>
    /\ pc' = "generate"
    /\ UNCHANGED <<session_state, uploaded_files, builds, event, prompt,
                   timestamp, fidx, all_texts, response>>

\* main.py 141: retrieval raises (the query is embedded remotely)
RetrieveRaises ==
    /\ pc = "retrieve"
    /\ pc' = "idle"
    /\ trace' = trace \o
         << Ev("retrieve_relevant_docs", [vectorstore |-> vectorstore, query |-> prompt]),
            Ev("exception", "retrieve_relevant_docs") >>
    /\ UNCHANGED <<session_state, uploaded_files, builds, event, prompt, locals>>

\* The user part appended without the "if user_prompt" test.
CombineAlways(sys, user) == sys \o << "\nUser: ", user >>

\* chat_utils.py 26-28
CombinePrompts(sys, user) ==
    IF user \notin {NoPrompt, ""} THEN sys \o << "\nUser: ", user >> ELSE sys

\* main.py 158, chat_utils.py 19-37: the generation call returns
Generate ==
    /\ pc = "generate"
    /\ \E text \in Responses :
        /\ response' = text
        /\ trace' = trace \o
             << Ev("generate_content", CombinePrompts(system_prompt, NoPrompt)),
                Ev("generate_content:return", text) >>
    /\ pc' = "respond"
    /\ UNCHANGED <<session_state, uploaded_files, builds, event, prompt,
                   timestamp, fidx, all_texts, system_prompt>>

\* The exception caught and recorded as the assistant's answer.
GenerateRaisesRecorded ==
    /\ pc = "generate"
    /\ pc' = "idle"
    /\ LET rec == [role |-> "assistant", content |-> "error", timestamp |-> timestamp]
       IN  /\ trace' = trace \o
                << Ev("generate_content", CombinePrompts(system_prompt, NoPrompt)),
                   Ev("exception", "generate_content"),
                   Ev("messages.append", rec) >>
           /\ session_state' =
                Put(session_state, "messages", AppendMessage(messages, rec))
    /\ UNCHANGED <<uploaded_files, builds, event, prompt, locals>>

\* main.py 158, chat_utils.py 31-34: the generation call raises
GenerateRaises ==
    /\ pc = "generate"
    /\ pc' = "idle"
    /\ trace' = trace \o
         << Ev("generate_content", CombinePrompts(system_prompt, NoPrompt)),
            Ev("exception", "generate_content") >>
    /\ UNCHANGED <<session_state, uploaded_files, builds, event, prompt, locals>>

\* The answer stamped with the time at which it arrived.
RespondFreshTimestamp ==
    /\ pc = "respond"
    /\ \E t \in Times :
        LET rec == [role |-> "assistant", content |-> response, timestamp |-> t]
        IN  /\ trace' = trace \o << Ev("st.markdown:message", Rendered(rec)),
                                   Ev("messages.append", rec) >>
            /\ session_state' =
                 Put(session_state, "messages", AppendMessage(messages, rec))
    /\ pc' = "footer"
    /\ UNCHANGED <<uploaded_files, builds, event, prompt, locals>>

\* main.py 161-162: the answer is rendered and recorded
Respond ==
    /\ pc = "respond"
    /\ LET rec == [role |-> "assistant", content |-> response, timestamp |-> timestamp]
       IN  /\ trace' = trace \o << Ev("st.markdown:message", Rendered(rec)),
                                  Ev("messages.append", rec) >>
           /\ session_state' =
                Put(session_state, "messages", AppendMessage(messages, rec))
    /\ pc' = "footer"
    /\ UNCHANGED <<uploaded_files, builds, event, prompt, locals>>

\* main.py 166-215: the closing markup and the footer; the run ends
Footer ==
    /\ pc = "footer"
    /\ pc' = "idle"
    /\ UNCHANGED <<session_state, uploaded_files, builds, event, prompt, locals, trace>>

Next ==
    \/ Load
    \/ Upload
    \/ ClickProcess
    \/ ClickClear
    \/ SubmitQuestion
    \/ SessionInit
    \/ Sidebar
    \/ ExtractFile
    \/ ExtractRaises
    \/ BuildIndex
    \/ BuildIndexRaises
    \/ NoValidText
    \/ ClearButton
    \/ Rerun
    \/ History
    \/ ChatInput
    \/ NoChatInput
    \/ Retrieve
    \/ RetrieveRaises
    \/ Generate
    \/ GenerateRaises
    \/ Respond
    \/ Footer

Spec == Init /\ [][Next]_vars

\* ------------------------------------------- a question over a larger index
\* The stored index holds at most MaxDocs chunks here, more than the default k.
MaxDocs == 5

ChunkLetters == << "a", "b", "c", "d", "e", "f", "g", "h" >>

\* An index of n different chunks, as a Process Documents action leaves it.
IndexOf(n) == create_faiss_index([i \in 1..n |-> << ChunkLetters[i] >>], 1)

\* A run that was given a question has reached the chat input; the log is
\* empty and an index of 1..MaxDocs chunks is stored.
InitRetrieval ==
    /\ \E n \in 1..MaxDocs :
         session_state = [x \in {"messages", "vectorstore"} |->
                            IF x = "messages" THEN <<>> ELSE IndexOf(n)]
    /\ uploaded_files = <<>>
    /\ builds = 1
    /\ pc = "chat_input"
    /\ event = "ask"
    /\ prompt \in Questions
    /\ timestamp = ""
    /\ fidx = 0
    /\ all_texts = <<>>
    /\ system_prompt = <<>>
    /\ response = ""
    /\ trace = <<>>

NextRetrieval ==
    \/ ChatInput
    \/ Retrieve
    \/ RetrieveRaises
    \/ Generate
    \/ GenerateRaises
    \/ Respond
    \/ Footer

SpecRetrieval == InitRetrieval /\ [][NextRetrieval]_vars

\* ------------------------------------------------ generate_response, alone
\* The system prompts given hold at most MaxPromptLen tokens.
MaxPromptLen == 3

PromptTokens == {"s", "\n"}
\* What a caller can pass as user_prompt: None, the empty string, a text.
UserPrompts == {NoPrompt, "", "u1"}
\* What the generation API can answer to a call.
ResponseTexts == {"r1", "r2"}

\* generate_response is about to be called with some system prompt.
InitGenerate ==
    /\ session_state = [x \in {} |-> <<>>]
    /\ uploaded_files = <<>>
    /\ builds = 0
    /\ pc = "call"
    /\ event = "none"
    /\ prompt = NoPrompt
    /\ timestamp = ""
    /\ fidx = 0
    /\ all_texts = <<>>
    /\ system_prompt \in UNION { [1..n -> PromptTokens] : n \in 0..MaxPromptLen }
    /\ response = ""
    /\ trace = <<>>

\* chat_utils.py 19-37: the call returns response.text
GenerateResponse ==
    /\ pc = "call"
    /\ \E user \in UserPrompts, text \in ResponseTexts :
        /\ trace' = trace \o
             << Ev("generate_response", [system_prompt |-> system_prompt, user_prompt |-> user]),
                Ev("generate_content", CombinePrompts(system_prompt, user)),
                Ev("generate_content:return", text) >>
        /\ response' = text
    /\ pc' = "returned"
    /\ UNCHANGED <<session_state, uploaded_files, builds, event, prompt,
                   timestamp, fidx, all_texts, system_prompt>>

\* chat_utils.py 31-34: generate_content raises
GenerateResponseRaises ==
    /\ pc = "call"
    /\ \E user \in UserPrompts :
        trace' = trace \o
             << Ev("generate_response", [system_prompt |-> system_prompt, user_prompt |-> user]),
                Ev("generate_content", CombinePrompts(system_prompt, user)),
                Ev("exception", "generate_content") >>
    /\ pc' = "raised"
    /\ UNCHANGED <<session_state, uploaded_files, builds, event, prompt, locals>>

NextGenerate ==
    \/ GenerateResponse
    \/ GenerateResponseRaises

SpecGenerate == InitGenerate /\ [][NextGenerate]_vars

\* ================================================================== claims
HasKeys == {"messages", "vectorstore"} \subseteq DOMAIN session_state

IsPrefix(a, b) == Len(a) <= Len(b) /\ SubSeq(b, 1, Len(a)) = a

Has(tr, op) == \E i \in DOMAIN tr : tr[i].op = op

Select(tr, op) == SelectSeq(tr, LAMBDA e : e.op = op)

\* a text with a character that is not whitespace
NonBlank(text) == \E i \in DOMAIN text : text[i] \notin Whitespace

\* the texts this run's extraction calls returned, in call order
Extracted(tr) ==
    LET es == Select(tr, "extract_text_from_pdf")
    IN  [i \in DOMAIN es |-> es[i].arg.text]

\* the files this run's extraction calls were given, in call order
ExtractedFiles(tr) ==
    LET es == Select(tr, "extract_text_from_pdf")
    IN  [i \in DOMAIN es |-> es[i].arg.file]

\* the chunks of the extracted texts that are not blank, in call order
ValidChunks(tr) ==
    LET valid == SelectSeq(Extracted(tr), LAMBDA t : NonBlank(t))
    IN  Flatten([i \in DOMAIN valid |-> SplitText(valid[i])])

\* the sidebar's Process Documents block has run to its end in this run
ProcessCompleted ==
    /\ event = "process"
    /\ \/ pc \in {"clear_button", "history", "chat_input", "footer"}
       \/ pc = "idle" /\ ~Has(trace, "exception")

WellFormed(rec) ==
    /\ DOMAIN rec = {"role", "content", "timestamp"}
    /\ rec.role \in {"user", "assistant"}

C1_Step ==
    HasKeys =>
      \/ /\ IsPrefix(messages, messages')
         /\ \A i \in (Len(messages) + 1)..Len(messages') : WellFormed(messages'[i])
         /\ messages' # messages => event = "ask"
      \/ /\ pc = "clear_button"
         /\ event = "clear"
         /\ messages' = <<>>

\* C1: between Clear Chat actions the log is append-only: a step either
\* leaves the records of the log in place and adds, at the end and only in a
\* run that was given a question, records with exactly the fields role
\* ('user' or 'assistant'), content and timestamp; or it is Clear Chat.
C1_AppendOnly == [][C1_Step]_vars

C1_Witness ==
    /\ pc = "idle"
    /\ HasKeys
    /\ Len(messages) >= 3
    /\ messages[Len(messages)].role = "assistant"

\* C2 as stated: after any Process Documents action that completes, the
\* stored index is one built during that action.
C2_EveryProcessReplaces ==
    (HasKeys /\ ProcessCompleted) =>
        \E i \in DOMAIN trace :
            /\ trace[i].op = "create_faiss_index:return"
            /\ trace[i].arg = vectorstore

C2_Step ==
    /\ ( /\ pc = "build"
         /\ pc' = "clear_button"
         /\ \E i \in DOMAIN Extracted(trace) : NonBlank(Extracted(trace)[i]) )
      => /\ vectorstore' # vectorstore
         /\ vectorstore'.id \notin 0..builds
         /\ Select(trace', "create_faiss_index:return") = << Ev("create_faiss_index:return", vectorstore') >>
    /\ (HasKeys /\ ProcessCompleted) => vectorstore' = vectorstore

\* C2, amended: a Process Documents action in which some file yields text
\* that is not blank, and whose index construction returns, replaces the
\* stored reference with the index built in that action, which no earlier
\* action built; the rest of the run leaves it in place.
C2_ProcessReplaces == [][C2_Step]_vars

C2_Witness ==
    /\ ProcessCompleted
    /\ pc = "idle"
    /\ builds = 2
    /\ vectorstore.id = 2

\* C3: after a Process Documents action that stored an index, the index
\* holds exactly the chunks of the files uploaded in that action whose
\* extracted text is not blank, in upload order, and nothing else.
C3_RebuiltWholesale ==
    (HasKeys /\ ProcessCompleted /\ Has(trace, "st.success:processed")) =>
        /\ ExtractedFiles(trace) = uploaded_files
        /\ vectorstore.docs = ValidChunks(trace)

C3_Witness ==
    /\ ProcessCompleted
    /\ Has(trace, "st.success:processed")
    /\ builds = 2
    /\ Len(uploaded_files) = 2
    /\ Len(vectorstore.docs) = 1

\* the run's retrieval, generation and log steps, in the order they happened
AskSteps(tr) ==
    SelectSeq(tr, LAMBDA e : e.op \in
        {"messages.append", "retrieve_relevant_docs", "retrieve_relevant_docs:return",
         "generate_content", "generate_content:return", "exception"})

Ops(tr) == [i \in DOMAIN tr |-> tr[i].op]

\* the records this run appended are the end of the log
AppendedAtEnd ==
    LET apps == Select(trace, "messages.append")
    IN  /\ Len(apps) <= Len(messages)
        /\ \A i \in DOMAIN apps :
             messages[Len(messages) - Len(apps) + i] = apps[i].arg

\* C4: a question asked with an index stored: the user record is appended,
\* then the stored index is searched with the question, then the generation
\* API is called once with the prompt formatted from what the search returned
\* and the question, and only after it returned the assistant record with the
\* returned text is appended.
C4_AskOrder ==
    (HasKeys /\ event = "ask" /\ Has(trace, "messages.append") /\ vectorstore # None) =>
        LET steps == AskSteps(trace)
            order == << "messages.append", "retrieve_relevant_docs",
                        "retrieve_relevant_docs:return", "generate_content",
                        "generate_content:return", "messages.append" >>
            n == Len(steps)
            m == IF steps[n].op = "exception" THEN n - 1 ELSE n
        IN  /\ m <= Len(order)
            /\ Ops(SubSeq(steps, 1, m)) = SubSeq(order, 1, m)
            /\ steps[n].op = "exception" => m \in {2, 4}
            /\ steps[1].arg.role = "user" /\ steps[1].arg.content = prompt
            /\ m >= 2 => steps[2].arg = [vectorstore |-> vectorstore, query |-> prompt]
            /\ m >= 4 => steps[4].arg = FormatPrompt(Join(steps[3].arg, << "\n", "\n" >>), prompt)
            /\ m >= 6 => steps[6].arg =
                 [role |-> "assistant", content |-> steps[5].arg, timestamp |-> steps[1].arg.timestamp]
            /\ AppendedAtEnd
            /\ pc = "generate" <=> (m = 3 /\ n = 3)
            /\ pc \in {"footer", "idle"} => (m = 6 \/ n > m)

C4_Witness ==
    /\ HasKeys
    /\ event = "ask"
    /\ pc = "idle"
    /\ Len(AskSteps(trace)) = 6
    /\ Len(messages) = 4
    /\ Len(vectorstore.docs) = 2

\* C5: a question asked with no index stored: the user's record is the one
\* record appended, the warning is shown, neither retrieval nor generation is
\* called, and the run ends.
C5_AskWithoutIndex ==
    (HasKeys /\ event = "ask" /\ Has(trace, "messages.append") /\ vectorstore = None) =>
        /\ Ops(AskSteps(trace)) = << "messages.append" >>
        /\ AskSteps(trace)[1].arg.role = "user"
        /\ AskSteps(trace)[1].arg.content = prompt
        /\ AppendedAtEnd
        /\ trace[Len(trace)] = Ev("st.warning:no_index", 0)
        /\ pc \in {"footer", "idle"}

C5_Witness ==
    /\ HasKeys
    /\ event = "ask"
    /\ pc = "idle"
    /\ vectorstore = None
    /\ Len(messages) = 2

C6_Step ==
    (HasKeys /\ vectorstore # None) => vectorstore' # None

\* C6: a stored index is never evicted: once the reference is not None, no
\* step makes it None.
C6_NoEviction == [][C6_Step]_vars

C6_Witness ==
    /\ HasKeys
    /\ pc = "rerun"
    /\ vectorstore # None
    /\ builds = 2

C7_Step ==
    pc \in {"new", "idle", "rerun", "init"} =>
      /\ \A k \in DOMAIN session_state :
           k \in DOMAIN session_state' /\ session_state'[k] = session_state[k]
      /\ pc = "init" =>
           /\ DOMAIN session_state' = {"messages", "vectorstore"}
           /\ "messages" \notin DOMAIN session_state => session_state'["messages"] = <<>>
           /\ "vectorstore" \notin DOMAIN session_state => session_state'["vectorstore"] = None

\* C7: the start of a run writes a session key only when it is absent (the
\* log as the empty list, the index as None) and leaves every key that is
\* there as it is.
C7_InitOnlyWhenAbsent == [][C7_Step]_vars

C7_Witness ==
    /\ pc = "sidebar"
    /\ HasKeys
    /\ messages # <<>>
    /\ vectorstore # None

\* every extraction of this run returned blank text
AllBlank(tr) == \A i \in DOMAIN Extracted(tr) : ~NonBlank(Extracted(tr)[i])

C8_Step ==
    /\ ( /\ event = "process"
         /\ pc \in {"build", "clear_button", "history", "chat_input", "footer"}
         /\ AllBlank(trace) )
      => /\ session_state' = session_state
         /\ ~Has(trace', "create_faiss_index")
         /\ ~Has(trace', "st.success:processed")
         /\ Has(trace', "st.error:no_valid_text")
    /\ (Has(trace', "st.success:processed") /\ ~Has(trace, "st.success:processed"))
      => /\ vectorstore'.id \notin 0..builds
         /\ Has(trace', "create_faiss_index:return")
         /\ messages' = messages

\* C8: when no uploaded file yields text that is not blank, the run calls no
\* index construction, shows the error, and leaves the stored index and the
\* log as they were; the success message appears only in a step that stored
\* an index built in that step.
C8_NoValidText == [][C8_Step]_vars

C8_Witness ==
    /\ HasKeys
    /\ event = "process"
    /\ pc = "idle"
    /\ Has(trace, "st.error:no_valid_text")
    /\ Len(uploaded_files) = 2
    /\ vectorstore # None
    /\ messages # <<>>

C9_Step ==
    /\ ( /\ pc = "extract"
         /\ Len(Extracted(trace')) > Len(Extracted(trace))
         /\ ~NonBlank(Extracted(trace')[Len(Extracted(trace'))]) )
      => /\ trace'[Len(trace')] = Ev("st.warning:no_text", uploaded_files[fidx])
         /\ all_texts' = all_texts
         /\ fidx' = fidx + 1
         /\ pc' = IF fidx < Len(uploaded_files) THEN "extract" ELSE "build"
    /\ \A i \in DOMAIN trace' :
         trace'[i].op = "create_faiss_index" =>
           /\ trace'[i].arg = ValidChunks(trace')
           /\ trace'[i].arg # <<>>
           /\ ExtractedFiles(trace') = uploaded_files
           /\ ~Has(SubSeq(trace', i, Len(trace')), "extract_text_from_pdf")

\* C9: a file whose extracted text is blank gets a warning that names it and
\* adds nothing to the texts, and the loop goes on to the next file; index
\* construction is called only with the chunks of the files whose text is not
\* blank, of which there is at least one, in upload order.
C9_BlankFilesSkipped == [][C9_Step]_vars

C9_Witness ==
    /\ HasKeys
    /\ event = "process"
    /\ Has(trace, "create_faiss_index:return")
    /\ Len(Extracted(trace)) = 2
    /\ ~NonBlank(Extracted(trace)[1])
    /\ Has(trace, "st.warning:no_text")

C10_Step ==
    ( /\ pc \in {"retrieve", "generate"}
      /\ Has(trace', "exception") )
    => /\ messages' = messages
       /\ messages'[Len(messages')] = Select(trace', "messages.append")[1].arg
       /\ messages'[Len(messages')].role = "user"
       /\ messages'[Len(messages')].content = prompt
       /\ Len(Select(trace', "messages.append")) = 1
       /\ vectorstore' = vectorstore
       /\ pc' = "idle"

\* C10: when retrieval or the generation call raises, the user record of the
\* run stays the last record of the log, no assistant record is appended, the
\* stored index is unchanged and the run is over.
C10_RaiseLeavesUserRecord == [][C10_Step]_vars

C10_Witness ==
    /\ HasKeys
    /\ event = "ask"
    /\ pc = "idle"
    /\ trace[Len(trace)] = Ev("exception", "generate_content")
    /\ messages[Len(messages)].role = "user"
    /\ Len(messages) = 3

\* the parts joined with sep, built from the right
RECURSIVE Joined(_, _)
Joined(parts, sep) ==
    IF Len(parts) = 0 THEN <<>>
    ELSE IF Len(parts) = 1 THEN parts[1]
    ELSE Joined(SubSeq(parts, 1, Len(parts) - 1), sep) \o sep \o parts[Len(parts)]

\* C11: the context is the retrieved documents' texts joined with a blank
\* line, in the order retrieval returned them; retrieval returns at most 4
\* documents of the stored index; the prompt sent to the model holds that
\* context right after 'Medical Documents:' and the question right after
\* 'User Question:'.
C11_ContextAndPrompt ==
    Has(trace, "retrieve_relevant_docs:return") =>
        LET docs == Select(trace, "retrieve_relevant_docs:return")[1].arg
            context == Joined(docs, << "\n", "\n" >>)
            c == Len(context)
        IN  /\ Len(docs) = Min(4, Len(vectorstore.docs))
            /\ \A i \in DOMAIN docs : \E j \in DOMAIN vectorstore.docs : docs[i] = vectorstore.docs[j]
            /\ Len(system_prompt) = c + 4
            /\ system_prompt[1] = "You are MediChat Pro [...]\n\nMedical Documents:\n"
            /\ SubSeq(system_prompt, 2, c + 1) = context
            /\ system_prompt[c + 2] = "\n\nUser Question: "
            /\ system_prompt[c + 3] = prompt
            /\ system_prompt[c + 4] = "\n\nAnswer:"
            /\ \A i \in DOMAIN trace :
                 trace[i].op = "generate_content" => trace[i].arg = system_prompt

C11_Witness ==
    /\ pc = "idle"
    /\ Len(vectorstore.docs) = 5
    /\ Has(trace, "generate_content:return")
    /\ Select(trace, "retrieve_relevant_docs:return")[1].arg =
         << <<"e">>, <<"b">>, <<"a">>, <<"d">> >>
    /\ prompt = "q2"

\* C12: a call of generate_response sends one generation request, whose
\* contents are system_prompt as given when user_prompt is None or empty and
\* system_prompt, a newline, 'User: ' and user_prompt otherwise; what it
\* returns is the text of the response to that request.
C12_GenerateResponse ==
    Has(trace, "generate_response") =>
        LET call == Select(trace, "generate_response")[1].arg
            requests == Select(trace, "generate_content")
            answers == Select(trace, "generate_content:return")
        IN  /\ Len(Select(trace, "generate_response")) = 1
            /\ Len(requests) = 1
            /\ call.user_prompt \in {NoPrompt, ""} => requests[1].arg = call.system_prompt
            /\ call.user_prompt \notin {NoPrompt, ""} =>
                 /\ Len(requests[1].arg) = Len(call.system_prompt) + 2
                 /\ SubSeq(requests[1].arg, 1, Len(call.system_prompt)) = call.system_prompt
                 /\ requests[1].arg[Len(call.system_prompt) + 1] = "\nUser: "
                 /\ requests[1].arg[Len(call.system_prompt) + 2] = call.user_prompt
            /\ pc = "returned" => (Len(answers) = 1 /\ response = answers[1].arg)
            /\ pc = "raised" => (Len(answers) = 0 /\ response = "")

C12_Witness ==
    /\ pc = "returned"
    /\ Select(trace, "generate_response")[1].arg.user_prompt = ""
    /\ Len(system_prompt) = 3
    /\ response = "r2"

\* a retrieval call is given the index that is stored
RetrievalUsesStored ==
    \A i \in DOMAIN trace' :
        trace'[i].op = "retrieve_relevant_docs" => trace'[i].arg.vectorstore = vectorstore

C13_Step ==
    /\ (pc = "clear_button" /\ event = "clear") =>
         /\ messages' = <<>>
         /\ vectorstore' = vectorstore
         /\ pc' = "rerun"
         /\ ~Has(trace', "st.markdown:message")
    /\ pc = "rerun" =>
         /\ pc' = "init"
         /\ event' = "none"
         /\ trace' = <<>>
         /\ session_state' = session_state
    /\ HasKeys =>
         /\ \A i \in DOMAIN trace' :
              trace'[i].op = "st.markdown:message" =>
                \E j \in DOMAIN messages' : Rendered(messages'[j]) = trace'[i].arg
         /\ RetrievalUsesStored

\* C13: Clear Chat empties the log, leaves the stored index as it is and
\* restarts the run at once with nothing of the old log rendered; whatever a
\* run renders is a record of the log as it is then, and a later question is
\* searched in the index that is stored, the one from before the clear.
C13_ClearChat == [][C13_Step]_vars

C13_Witness ==
    /\ HasKeys
    /\ pc = "rerun"
    /\ Has(trace, "st.success:cleared")
    /\ messages = <<>>
    /\ vectorstore.id = 1
    /\ Len(vectorstore.docs) = 2

\* C14: every assistant record of the log comes right after a user record
\* with the same timestamp, so no two assistant records are adjacent, and a
\* log that is not empty begins with a user record.
C14_LogShape ==
    HasKeys =>
        /\ messages # <<>> => messages[1].role = "user"
        /\ \A i \in DOMAIN messages :
             messages[i].role = "assistant" =>
               /\ i > 1
               /\ messages[i - 1].role = "user"
               /\ messages[i - 1].timestamp = messages[i].timestamp

C14_Witness ==
    /\ HasKeys
    /\ Len(messages) = 4
    /\ messages[2].role = "assistant"
    /\ messages[3].role = "user"
    /\ messages[4].role = "assistant"
    /\ messages[2].timestamp # messages[4].timestamp

\* what the run rendered of the log, in order
RenderedRecords(tr) ==
    LET ms == Select(tr, "st.markdown:message")
    IN  [i \in DOMAIN ms |-> ms[i].arg]

\* the position of the first event with this op in tr, Len(tr) + 1 if none
FirstAt(tr, op) ==
    IF Has(tr, op)
    THEN CHOOSE i \in DOMAIN tr :
           tr[i].op = op /\ \A j \in 1..(i - 1) : tr[j].op # op
    ELSE Len(tr) + 1

\* C15: when a run has reached its end, the records of the log have each been
\* rendered once, in log order: those the log held when the run began by the
\* history loop, before anything is appended, and those the run appended
\* after that, directly.
C15_RenderedOnce ==
    (HasKeys /\ pc = "idle" /\ ~Has(trace, "exception")) =>
        LET appended == Len(Select(trace, "messages.append"))
            before == SubSeq(trace, 1, FirstAt(trace, "messages.append") - 1)
        IN  /\ RenderedRecords(trace) = [i \in DOMAIN messages |-> Rendered(messages[i])]
            /\ Len(RenderedRecords(before)) = Len(messages) - appended

C15_Witness ==
    /\ HasKeys
    /\ pc = "idle"
    /\ ~Has(trace, "exception")
    /\ event = "ask"
    /\ Len(messages) = 4
    /\ Len(Select(trace, "messages.append")) = 2
    /\ messages[1].content # messages[3].content

C16_Step ==
    (HasKeys /\ event = "process") => messages' = messages

\* C16: a Process Documents action leaves the log as it is, whether it
\* stores a new index, finds no valid text or fails in index construction.
C16_ProcessKeepsLog == [][C16_Step]_vars

C16_Witness ==
    /\ HasKeys
    /\ event = "process"
    /\ pc = "idle"
    /\ Has(trace, "st.success:processed")
    /\ Len(messages) = 3

C17_Step ==
    /\ ( /\ pc = "build"
         /\ Has(trace', "exception") )
       => /\ session_state' = session_state
          /\ builds' = builds
          /\ ~Has(trace', "create_faiss_index:return")
          /\ ~Has(trace', "st.success:processed")
          /\ pc' = "idle"
    /\ (HasKeys /\ vectorstore' # vectorstore) =>
          /\ pc = "build"
          /\ Has(trace', "create_faiss_index:return")
    /\ HasKeys => RetrievalUsesStored

\* C17: when index construction raises, the assignment is not reached: the
\* stored reference keeps its value, None or the earlier index, and the run
\* is over; the reference changes only in a step in which index construction
\* returned, so later questions are searched in that earlier index.
C17_BuildRaises == [][C17_Step]_vars

C17_Witness ==
    /\ HasKeys
    /\ event = "process"
    /\ pc = "idle"
    /\ trace[Len(trace)] = Ev("exception", "create_faiss_index")
    /\ vectorstore.id = 1
    /\ builds = 1

====
